---------------------------- MODULE Spec2Model ----------------------------
(***************************************************************************)
(* A model of the FlightSearch adapter (src/server.py): the search_flights *)
(* tool builds the upstream query, issues one GET, and turns the reply     *)
(* into text.  Python values (the tool's arguments and the parsed JSON)    *)
(* are tagged records; Python strings are TLA+ strings; an exception is a  *)
(* record [type, msg, http] that travels to the handlers of lines 176-179. *)
(***************************************************************************)
EXTENDS Integers, Sequences, FiniteSets, TLC

(***************************************************************************)
(* Bounds of the model.                                                    *)
(***************************************************************************)
\* the wall clock (milliseconds) when the first invocation starts
StartClock == 998
\* how many milliseconds the wall clock may advance during a run
MaxTicks == 2
\* the longest offer list the mocked upstream returns
MaxOffers == 15

(***************************************************************************)
(* Program constants.                                                      *)
(***************************************************************************)
\* goods[:10] and len(goods) > 10 / len(goods) - 10
DigestCap == 10
\* response.text[:200]
ContentPrefixLen == 200
\* "-" * 50 and "-" * 30
HeaderRule == 50
BlockRule == 30

(***************************************************************************)
(* Python values.                                                          *)
(***************************************************************************)
None == [none |-> TRUE]
Num(n) == [num |-> n]
Str(s) == [str |-> s]
List(xs) == [list |-> xs]
\* a dict keeps its insertion order: a sequence of <<key, value>> pairs
Dict(kvs) == [dict |-> kvs]

IsNone(v) == DOMAIN v = {"none"}
IsNum(v) == DOMAIN v = {"num"}
IsStr(v) == DOMAIN v = {"str"}
IsList(v) == DOMAIN v = {"list"}
IsDict(v) == DOMAIN v = {"dict"}

TypeName(v) ==
    CASE IsNone(v) -> "NoneType"
      [] IsNum(v) -> "int"
      [] IsStr(v) -> "str"
      [] IsList(v) -> "list"
      [] IsDict(v) -> "dict"

\* bool(v)
Truthy(v) ==
    CASE IsNone(v) -> FALSE
      [] IsNum(v) -> v.num # 0
      [] IsStr(v) -> v.str # ""
      [] IsList(v) -> v.list # <<>>
      [] IsDict(v) -> v.dict # <<>>

Ok(v) == [ok |-> TRUE, val |-> v]
Raise(t, m) == [ok |-> FALSE, exc |-> [type |-> t, msg |-> m, http |-> FALSE]]
RaiseHttp(t, m) == [ok |-> FALSE, exc |-> [type |-> t, msg |-> m, http |-> TRUE]]

(***************************************************************************)
(* Strings.                                                                *)
(***************************************************************************)
Min(a, b) == IF a < b THEN a ELSE b

Digit(d) == SubSeq("0123456789", d + 1, d + 1)

RECURSIVE NatStr(_)
NatStr(n) == IF n < 10 THEN Digit(n) ELSE NatStr(n \div 10) \o Digit(n % 10)

\* str(n) of an int
IntStr(n) == IF n < 0 THEN "-" \o NatStr(-n) ELSE NatStr(n)

RECURSIVE NatComma(_)
NatComma(n) ==
    IF n < 1000 THEN NatStr(n)
    ELSE NatComma(n \div 1000) \o "," \o Digit((n % 1000) \div 100)
             \o Digit((n % 100) \div 10) \o Digit(n % 10)

\* f"{n:,}" of an int
CommaStr(n) == IF n < 0 THEN "-" \o NatComma(-n) ELSE NatComma(n)

RECURSIVE Repeat(_, _)
\* s * n
Repeat(s, n) == IF n <= 0 THEN "" ELSE s \o Repeat(s, n - 1)

RECURSIVE Join(_, _)
\* sep.join(xs)
Join(sep, xs) ==
    IF xs = <<>> THEN ""
    ELSE IF Len(xs) = 1 THEN xs[1]
    ELSE xs[1] \o sep \o Join(sep, Tail(xs))

RECURSIVE Replace(_, _, _)
\* s.replace(old, new) for a one-character old
Replace(s, old, new) ==
    IF s = "" THEN ""
    ELSE (IF SubSeq(s, 1, 1) = old THEN new ELSE SubSeq(s, 1, 1))
             \o Replace(SubSeq(s, 2, Len(s)), old, new)

\* s[:n]
Prefix(s, n) == SubSeq(s, 1, Min(n, Len(s)))

StartsWith(s, p) == Len(s) >= Len(p) /\ SubSeq(s, 1, Len(p)) = p

RECURSIVE Repr(_)
RECURSIVE ReprItems(_)
RECURSIVE ReprPairs(_)
\* repr(v)
Repr(v) ==
    CASE IsNone(v) -> "None"
      [] IsNum(v) -> IntStr(v.num)
      [] IsStr(v) -> "'" \o v.str \o "'"
      [] IsList(v) -> "[" \o Join(", ", ReprItems(v.list)) \o "]"
      [] IsDict(v) -> "{" \o Join(", ", ReprPairs(v.dict)) \o "}"
ReprItems(xs) ==
    IF xs = <<>> THEN <<>> ELSE <<Repr(Head(xs))>> \o ReprItems(Tail(xs))
ReprPairs(kvs) ==
    IF kvs = <<>> THEN <<>>
    ELSE <<"'" \o Head(kvs)[1] \o "': " \o Repr(Head(kvs)[2])>> \o ReprPairs(Tail(kvs))

\* str(v), the conversion of an f-string's {v}
PyStr(v) == IF IsStr(v) THEN v.str ELSE Repr(v)

RECURSIVE Dumps(_, _)
RECURSIVE DumpItems(_, _)
RECURSIVE DumpPairs(_, _)
\* json.dumps(v, indent=2, ensure_ascii=False), at nesting depth d
Dumps(v, d) ==
    CASE IsNone(v) -> "null"
      [] IsNum(v) -> IntStr(v.num)
      [] IsStr(v) -> "\"" \o v.str \o "\""
      [] IsList(v) ->
           IF v.list = <<>> THEN "[]"
           ELSE "[\n" \o Repeat("  ", d + 1)
                    \o Join(",\n" \o Repeat("  ", d + 1), DumpItems(v.list, d + 1))
                    \o "\n" \o Repeat("  ", d) \o "]"
      [] IsDict(v) ->
           IF v.dict = <<>> THEN "{}"
           ELSE "{\n" \o Repeat("  ", d + 1)
                    \o Join(",\n" \o Repeat("  ", d + 1), DumpPairs(v.dict, d + 1))
                    \o "\n" \o Repeat("  ", d) \o "}"
DumpItems(xs, d) ==
    IF xs = <<>> THEN <<>> ELSE <<Dumps(Head(xs), d)>> \o DumpItems(Tail(xs), d)
DumpPairs(kvs, d) ==
    IF kvs = <<>> THEN <<>>
    ELSE <<"\"" \o Head(kvs)[1] \o "\": " \o Dumps(Head(kvs)[2], d)>>
             \o DumpPairs(Tail(kvs), d)

(***************************************************************************)
(* Dictionary access.                                                      *)
(***************************************************************************)
HasKey(v, k) == IsDict(v) /\ \E i \in 1..Len(v.dict) : v.dict[i][1] = k

Lookup(v, k) == v.dict[CHOOSE i \in 1..Len(v.dict) : v.dict[i][1] = k][2]

\* v.get(k, default): AttributeError unless v is a dict
Get(v, k, default) ==
    IF ~IsDict(v)
    THEN Raise("AttributeError",
               "'" \o TypeName(v) \o "' object has no attribute 'get'")
    ELSE Ok(IF HasKey(v, k) THEN Lookup(v, k) ELSE default)


(***************************************************************************)
(* The request builder (lines 49-109).                                     *)
(***************************************************************************)
\* BASE_URL, with the default of line 18
BASE_URL == "https://www.onlinetour.co.kr"

Endpoint == "/flight/api/international/booking/flightInterFareSearchJson"

RECURSIVE RStrip(_, _)
\* s.rstrip(ch)
RStrip(s, ch) ==
    IF s # "" /\ SubSeq(s, Len(s), Len(s)) = ch
    THEN RStrip(SubSeq(s, 1, Len(s) - 1), ch)
    ELSE s

Url == RStrip(BASE_URL, "/") \o Endpoint

\* s_dt = departure_date.replace("-", "")
StartDt(a) == Replace(a.departure_date, "-", "")

\* EndDt without the normalization
EndDtUnstripped(a) == IF Truthy(a.return_date) THEN a.return_date.str ELSE ""

\* e_dt = return_date.replace("-", "") if return_date else ""
EndDt(a) ==
    IF Truthy(a.return_date) THEN Replace(a.return_date.str, "-", "") ELSE ""

\* ReturnFrom without the swap
ReturnFromUnswapped(a) == IF a.trip_type = "RT" THEN a.departure_city ELSE ""

\* "sCity2": arrival_city if trip_type == "RT" else ""
ReturnFrom(a) == IF a.trip_type = "RT" THEN a.arrival_city ELSE ""

\* "eCity2": departure_city if trip_type == "RT" else ""
ReturnTo(a) == IF a.trip_type = "RT" THEN a.departure_city ELSE ""

\* Timestamp in whole seconds
TimestampSeconds(clock) == IntStr(clock \div 1000)

\* timestamp = str(int(time.time() * 1000)), the clock read in milliseconds
Timestamp(clock) == IntStr(clock)

\* the params dict of lines 59-100, for arguments a and timestamp ts
Params(a, ts) ==
    Dict(<< <<"skin", Str("onlinetour")>>, <<"resId", Str("")>>, <<"soto", Str("N")>>,
            <<"trip", Str(a.trip_type)>>,
            <<"startDt", Str(StartDt(a))>>, <<"endDt", Str(EndDt(a))>>,
            <<"sDate1", Str("")>>, <<"sDate2", Str("")>>, <<"sDate3", Str("")>>,
            <<"sCity1", Str(a.departure_city)>>, <<"eCity1", Str(a.arrival_city)>>,
            <<"eCity1NtDesc", Str("")>>,
            <<"sCity2", Str(ReturnFrom(a))>>, <<"eCity2", Str(ReturnTo(a))>>,
            <<"sCity3", Str("")>>, <<"eCity3", Str("")>>,
            <<"adt", Num(a.adults)>>, <<"chd", Num(a.children)>>,
            <<"inf", Num(a.infants)>>,
            <<"filterAirLine", Str("")>>, <<"filterViaNo", Str("")>>,
            <<"seatType", Str(a.seat_class)>>,
            <<"best", Str("Y")>>, <<"sgc", Str("")>>, <<"rgc", Str("")>>,
            <<"partnerCode", Str("")>>, <<"eventNum", Str("")>>,
            <<"classJoinNum", Str("")>>, <<"partnerNum", Str("")>>,
            <<"fareType", Str("Y")>>, <<"eventInd", Str("")>>,
            <<"splitNo", Str("1000")>>, <<"epricingYn", Str("N")>>,
            <<"blockGoodsYn", Str("Y")>>, <<"summary", Str("N")>>,
            <<"schedule", Str("Y")>>, <<"SGMap", Str("Y")>>, <<"Host", Str("Y")>>,
            <<"passDataYn", Str("N")>>,
            <<"_", Str(ts)>> >>)

(***************************************************************************)
(* The response formatter (lines 116-174).                                 *)
(***************************************************************************)
\* a + b
Add(a, b) ==
    IF IsNum(a) /\ IsNum(b) THEN Ok(Num(a.num + b.num))
    ELSE IF IsStr(a) /\ IsStr(b) THEN Ok(Str(a.str \o b.str))
    ELSE IF IsList(a) /\ IsList(b) THEN Ok(List(a.list \o b.list))
    ELSE IF IsStr(a) \/ IsList(a)
    THEN Raise("TypeError", "can only concatenate " \o TypeName(a) \o " (not \""
                                \o TypeName(b) \o "\") to " \o TypeName(a))
    ELSE Raise("TypeError", "unsupported operand type(s) for +: '" \o TypeName(a)
                                \o "' and '" \o TypeName(b) \o "'")

\* f"{v:,}"
FormatComma(v) ==
    IF IsNum(v) THEN Ok(CommaStr(v.num))
    ELSE IF IsStr(v) THEN Raise("ValueError", "Cannot specify ',' with 's'.")
    ELSE Raise("TypeError", "unsupported format string passed to "
                                \o TypeName(v) \o ".__format__")

\* v[0] of a truthy v
First(v) ==
    CASE IsList(v) -> Ok(v.list[1])
      [] IsStr(v) -> Ok(Str(SubSeq(v.str, 1, 1)))
      [] IsDict(v) -> Raise("KeyError", "0")
      [] OTHER -> Raise("TypeError",
                        "'" \o TypeName(v) \o "' object is not subscriptable")

\* len(v)
PyLen(v) ==
    CASE IsList(v) -> Ok(Len(v.list))
      [] IsStr(v) -> Ok(Len(v.str))
      [] IsDict(v) -> Ok(Len(v.dict))
      [] OTHER -> Raise("TypeError",
                        "object of type '" \o TypeName(v) \o "' has no len()")

RECURSIVE Chars(_)
Chars(s) == IF s = "" THEN <<>> ELSE <<Str(SubSeq(s, 1, 1))>> \o Chars(SubSeq(s, 2, Len(s)))

\* the items that enumerate(v[:n]) yields
Slice(v, n) ==
    CASE IsList(v) -> Ok(SubSeq(v.list, 1, Min(n, Len(v.list))))
      [] IsStr(v) -> Ok(Chars(Prefix(v.str, n)))
      [] IsDict(v) -> Raise("TypeError", "unhashable type: 'slice'")
      [] OTHER -> Raise("TypeError",
                        "'" \o TypeName(v) \o "' object is not subscriptable")

\* NotOK taking a missing error count for success
NotOKWhenPresent(v) == ~IsNone(v) /\ ~(IsStr(v) /\ v.str = "OK")

\* v != "OK"
NotOK(v) == ~(IsStr(v) /\ v.str = "OK")

\* lines 150-157: the text of the first card discount, "" when there is none
CheapestEvent(item, total_base_fare) ==
    LET lst == Get(item, "EventFareList", Dict(<<>>)) IN
    IF ~lst.ok THEN lst ELSE
    LET event_fares == Get(lst.val, "EventFare", List(<<>>)) IN
    IF ~event_fares.ok THEN event_fares ELSE
    IF ~Truthy(event_fares.val) THEN Ok("") ELSE
    LET best_event == First(event_fares.val) IN
    IF ~best_event.ok THEN best_event ELSE
    LET best_total == Get(best_event.val, "TotalSaleFare", total_base_fare) IN
    IF ~best_total.ok THEN best_total ELSE
    LET shown == FormatComma(best_total.val) IN
    IF ~shown.ok THEN shown ELSE
    Ok(" (Card Discount: " \o shown.val \o " KRW - "
           \o PyStr(Get(best_event.val, "FareTypeDesc", None).val) \o ")")

\* TotalBaseFare without the surcharge
TotalWithoutSurcharge(item) ==
    LET sale_fare == Get(item, "SaleFare", Num(0)) IN
    IF ~sale_fare.ok THEN sale_fare
    ELSE Add(sale_fare.val, Get(item, "Tax", Num(0)).val)

\* lines 144-148: sale_fare + tax + q_charge, each defaulting to 0
TotalBaseFare(item) ==
    LET sale_fare == Get(item, "SaleFare", Num(0)) IN
    IF ~sale_fare.ok THEN sale_fare ELSE
    LET tax == Get(item, "Tax", Num(0)).val
        q_charge == Get(item, "Qcharge", Num(0)).val
        partial == Add(sale_fare.val, tax)
    IN  IF ~partial.ok THEN partial ELSE Add(partial.val, q_charge)

\* lines 140-167: the list res of one offer's lines, offer number i (0-based)
OfferLines(item, i) ==
    LET airline == Get(item, "AirLineKor", Str("Unknown Airline")) IN
    IF ~airline.ok THEN airline ELSE
    LET total == TotalBaseFare(item) IN
    IF ~total.ok THEN total ELSE
    LET cheapest_event == CheapestEvent(item, total.val) IN
    IF ~cheapest_event.ok THEN cheapest_event ELSE
    LET price == FormatComma(total.val) IN
    IF ~price.ok THEN price ELSE
    Ok(<< "[" \o IntStr(i + 1) \o "] " \o PyStr(airline.val),
          "   Route: " \o PyStr(Get(item, "StartRoutine", Str("")).val) \o " / "
              \o PyStr(Get(item, "ReturnRoutine", Str("")).val),
          "   Price: " \o price.val \o " KRW" \o cheapest_event.val,
          "   Baggage: " \o PyStr(Get(item, "AdultBagInfo", Str("N/A")).val),
          "   Fare Type: " \o PyStr(Get(item, "FareTypeDesc", Str("")).val) \o " ("
              \o PyStr(Get(item, "FareFix", Str("")).val) \o ")" >>)

\* Trailer with the comparison off by one
TrailerFromCap(n) ==
    IF n >= DigestCap
    THEN << "... and " \o IntStr(n - DigestCap) \o " more results." >>
    ELSE << >>

\* lines 171-172: the line counting the offers past the cap
Trailer(n) ==
    IF n > DigestCap
    THEN << "... and " \o IntStr(n - DigestCap) \o " more results." >>
    ELSE << >>

(***************************************************************************)
(* The upstream's reply, as httpx reports it.                              *)
(***************************************************************************)
\* IsSuccess taking every status below 400 for a success
IsSuccessBelow400(status) == status < 400

\* response.is_success
IsSuccess(status) == 200 <= status /\ status <= 299

\* str(e) of the HTTPStatusError that raise_for_status() raises
StatusMessage(status) ==
    (CASE status \div 100 = 1 -> "Informational response"
       [] status \div 100 = 3 -> "Redirect response"
       [] status \div 100 = 4 -> "Client error"
       [] OTHER -> "Server error")
        \o " '" \o IntStr(status) \o "' for url '" \o Url \o "'"

\* Handle without the catch-all of lines 178-179: other exceptions propagate
HandleHttpOnly(e) ==
    IF e.http
    THEN [pc |-> "done", ret |-> "Error fetching flight data: " \o e.msg]
    ELSE [pc |-> "raised", ret |-> ""]

\* the handlers of lines 176-179: where an exception ends
Handle(e) ==
    IF e.http
    THEN [pc |-> "done", ret |-> "Error fetching flight data: " \o e.msg]
    ELSE [pc |-> "done", ret |-> "An unexpected error occurred: " \o e.msg]

(***************************************************************************)
(* The inputs: the tool's arguments and the replies of a mocked upstream.  *)
(***************************************************************************)
\* the signature's defaults (lines 22-31)
DefaultArgs ==
    [trip_type |-> "RT", departure_city |-> "ICN", arrival_city |-> "FUK",
     departure_date |-> "2026-03-03", return_date |-> Str("2026-03-09"),
     adults |-> 1, children |-> 0, infants |-> 0, seat_class |-> "Y",
     raw_json |-> FALSE]

\* arguments of the declared types: str, Optional[str], int, bool
ArgSet ==
    { [DefaultArgs EXCEPT !.trip_type = t, !.departure_city = ct[1],
                          !.arrival_city = ct[2], !.departure_date = d,
                          !.return_date = r, !.adults = n, !.raw_json = raw] :
        t \in {"RT", "OW"},
        ct \in {<<"ICN", "FUK">>, <<"GMP", "HND">>},
        d \in {"2026-03-03", "2026-12-25", "20260303"},
        r \in {None, Str(""), Str("2026-03-09")},
        n \in {1, 2},
        raw \in BOOLEAN }

With(d, k, v) ==
    IF HasKey(d, k)
    THEN Dict([i \in 1..Len(d.dict) |->
                  IF d.dict[i][1] = k THEN <<k, v>> ELSE d.dict[i]])
    ELSE Dict(Append(d.dict, <<k, v>>))

Without(d, k) == Dict(SelectSeq(d.dict, LAMBDA kv : kv[1] # k))

\* the k-th offer of a well-formed reply; the first is the spec's example
Offer(k) ==
    Dict(<< <<"AirLineKor", Str("Air" \o IntStr(k))>>,
            <<"StartRoutine", Str("ICN-FUK")>>,
            <<"ReturnRoutine", Str("FUK-ICN")>>,
            <<"SaleFare", Num(500000 + 1000 * (k - 1))>>,
            <<"Tax", Num(50000)>>,
            <<"Qcharge", Num(10000)>>,
            <<"AdultBagInfo", Str("15KG")>>,
            <<"FareTypeDesc", Str("Adult")>>,
            <<"FareFix", Str("Fixed")>> >>)

Opt(d, k, vs) == IF vs = <<>> THEN Without(d, k) ELSE With(d, k, vs[1])

\* offers with each fare component absent or present
FareOffers ==
    { Opt(Opt(Opt(Offer(1), "SaleFare", s), "Tax", t), "Qcharge", q) :
        s \in {<<>>, <<Num(0)>>, <<Num(999)>>, <<Num(500000)>>},
        t \in {<<>>, <<Num(50000)>>},
        q \in {<<>>, <<Num(1)>>, <<Num(10000)>>} }

EventList(fares) == Dict(<< <<"EventFare", fares>> >>)

CardFare == Dict(<< <<"TotalSaleFare", Num(540000)>>, <<"FareTypeDesc", Str("Card")>> >>)

\* what the upstream may send in the place of offer o
OfferVariants(o) ==
    { Without(o, "AirLineKor"),
      Without(o, "AdultBagInfo"),
      With(o, "AirLineKor", None),
      With(o, "SaleFare", None),
      With(o, "SaleFare", Str("500000")),
      With(With(With(o, "SaleFare", Str("5")), "Tax", Str("6")), "Qcharge", Str("7")),
      With(o, "Tax", List(<<>>)),
      With(o, "EventFareList", EventList(List(<<CardFare>>))),
      With(o, "EventFareList", EventList(List(<<Without(CardFare, "TotalSaleFare")>>))),
      With(o, "EventFareList", EventList(List(<<Without(CardFare, "FareTypeDesc")>>))),
      With(o, "EventFareList", EventList(List(<<With(CardFare, "TotalSaleFare", Str("540000"))>>))),
      With(o, "EventFareList", EventList(List(<<None>>))),
      With(o, "EventFareList", EventList(List(<<>>))),
      With(o, "EventFareList", EventList(Dict(<< <<"TotalSaleFare", Num(1)>> >>))),
      With(o, "EventFareList", Dict(<<>>)),
      With(o, "EventFareList", None),
      None,
      Str("offer"),
      Dict(<<>>) }

PlainGoods(n) == List([k \in 1..n |-> Offer(k)])

ReplaceAt(g, p, v) == List([g.list EXCEPT ![p] = v])

\* the lists of n offers with one offer, the first or the one past the cap, varied
VariantGoods(n) ==
    UNION { { ReplaceAt(PlainGoods(n), p, v) : v \in OfferVariants(Offer(p)) } :
              p \in ({1, DigestCap + 1} \cap (1..n)) }

\* the values of "Goods"
GoodsSet ==
    { PlainGoods(n) : n \in 0..MaxOffers }
        \cup { List(<<o>>) : o \in FareOffers }
        \cup UNION { VariantGoods(n) : n \in {1, 3, DigestCap + 1} }
        \cup { None, Dict(<<>>), Dict(<< <<"a", Num(1)>> >>), Str(""), Str("ab"),
               Num(0), Num(5) }

\* the values of "GoodsList", as a sequence: empty when the key is absent
GoodsListSet ==
    { <<>>, <<None>>, <<Dict(<<>>)>>, <<List(<<>>)>> }
        \cup { << Dict(<< <<"Goods", g>> >>) >> : g \in GoodsSet }

OkSummary == Dict(<< <<"errCnt", Str("OK")>> >>)

\* the values of "GoodsSummary" other than a plain success
OtherSummarySet ==
    { <<>>, <<None>>, <<Str("OK")>>, <<Dict(<<>>)>>,
      << Dict(<< <<"errCnt", Str("1")>>, <<"errMsg", Str("No fares found")>> >>) >>,
      << Dict(<< <<"errCnt", Str("1")>> >>) >>,
      << Dict(<< <<"errCnt", Num(0)>>, <<"errMsg", None>> >>) >>,
      << Dict(<< <<"errCnt", Str("ok")>>, <<"errMsg", Str("lower case")>> >>) >>,
      << Dict(<< <<"errMsg", Str("no count")>> >>) >>,
      << Dict(<< <<"errCnt", Str("OK")>>, <<"errMsg", Str("fine")>> >>) >> }

Doc(summary, goods_list) ==
    Dict((IF summary = <<>> THEN <<>> ELSE << <<"GoodsSummary", summary[1]>> >>)
             \o (IF goods_list = <<>> THEN <<>> ELSE << <<"GoodsList", goods_list[1]>> >>))

GoodsDoc(g) == Doc(<<OkSummary>>, << Dict(<< <<"Goods", g>> >>) >>)

\* the parsed JSON bodies
DocSet ==
    { Doc(<<OkSummary>>, gl) : gl \in GoodsListSet }
        \cup { Doc(sm, gl) : sm \in OtherSummarySet,
                   gl \in { <<>>, <<Dict(<< <<"Goods", PlainGoods(0)>> >>)>>,
                            <<Dict(<< <<"Goods", PlainGoods(2)>> >>)>>,
                            <<None>> } }
        \cup { None, Num(7), Str("OK"), List(<<>>), List(<<Offer(1)>>) }

JsonBody(v) == [json |-> TRUE, value |-> v, text |-> ""]
TextBody(t) == [json |-> FALSE, value |-> None, text |-> t]

Failure(t, m) == [failed |-> TRUE, type |-> t, msg |-> m]
Reply(status, body) == [failed |-> FALSE, status |-> status, body |-> body]

ErrorDoc ==
    Doc(<< Dict(<< <<"errCnt", Str("1")>>, <<"errMsg", Str("No fares found")>> >>) >>, <<>>)

\* what one GET can end in
UpstreamSet ==
    { Failure("ConnectError", "All connection attempts failed"),
      Failure("ReadTimeout", "") }
        \cup { Reply(200, JsonBody(d)) : d \in DocSet }
        \cup { Reply(st, b) :
                 st \in {201, 301, 404, 500},
                 b \in { JsonBody(GoodsDoc(PlainGoods(1))), JsonBody(ErrorDoc),
                         TextBody("<html>Service Unavailable</html>") } }
        \cup { Reply(200, TextBody(t)) : t \in {"", "<html>Service Unavailable</html>"} }

Scenario(a, u) == [args |-> a, upstream |-> u]

\* one invocation: every reply under both output modes, every argument
\* combination under a few replies
Scenarios ==
    { Scenario([DefaultArgs EXCEPT !.raw_json = raw], u) :
        raw \in BOOLEAN, u \in UpstreamSet }
        \cup { Scenario(a, u) :
                 a \in ArgSet,
                 u \in { Failure("ConnectError", "All connection attempts failed"),
                         Reply(200, JsonBody(GoodsDoc(PlainGoods(0)))) } }

\* concurrent invocations: few arguments, few replies
SmallScenarios ==
    { Scenario([DefaultArgs EXCEPT !.raw_json = raw, !.trip_type = t], u) :
        raw \in BOOLEAN, t \in {"RT", "OW"},
        u \in { Failure("ReadTimeout", ""),
                Reply(200, JsonBody(GoodsDoc(PlainGoods(1)))) } }

(***************************************************************************)
(* The state: the wall clock, and per invocation its arguments, the reply  *)
(* the upstream will give, its position and its local variables.           *)
(***************************************************************************)
VARIABLES now, pc, args, upstream, gets, time_ms, params, response, data,
          summary_info, goods, sliced, results, idx, total_base_fare, res, ret

vars == <<now, pc, args, upstream, gets, time_ms, params, response, data,
          summary_info, goods, sliced, results, idx, total_base_fare, res, ret>>

\* a local variable not assigned yet
Unset == [unset |-> TRUE]

Calls == DOMAIN pc

InitWith(calls, scenarios) ==
    /\ now = StartClock
    /\ \E sc \in [calls -> scenarios] :
          /\ args = [c \in calls |-> sc[c].args]
          /\ upstream = [c \in calls |-> sc[c].upstream]
    /\ pc = [c \in calls |-> "start"]
    /\ gets = [c \in calls |-> 0]
    /\ time_ms = [c \in calls |-> Unset]
    /\ params = [c \in calls |-> Unset]
    /\ response = [c \in calls |-> Unset]
    /\ data = [c \in calls |-> Unset]
    /\ summary_info = [c \in calls |-> Unset]
    /\ goods = [c \in calls |-> Unset]
    /\ sliced = [c \in calls |-> <<>>]
    /\ results = [c \in calls |-> <<>>]
    /\ idx = [c \in calls |-> 0]
    /\ total_base_fare = [c \in calls |-> Unset]
    /\ res = [c \in calls |-> <<>>]
    /\ ret = [c \in calls |-> ""]

Init == InitWith({1}, Scenarios)

InitTwo == InitWith({1, 2}, SmallScenarios)

\* return s
Return(c, s) ==
    /\ pc' = [pc EXCEPT ![c] = "done"]
    /\ ret' = [ret EXCEPT ![c] = s]

\* raise e inside the try block of lines 111-179
Throw(c, e) ==
    /\ pc' = [pc EXCEPT ![c] = Handle(e).pc]
    /\ ret' = [ret EXCEPT ![c] = Handle(e).ret]

Goto(c, label) ==
    /\ pc' = [pc EXCEPT ![c] = label]
    /\ ret' = ret

\* the wall clock advances by a millisecond
Tick ==
    /\ now < StartClock + MaxTicks
    /\ now' = now + 1
    /\ UNCHANGED <<pc, args, upstream, gets, time_ms, params, response, data,
                   summary_info, goods, sliced, results, idx, total_base_fare,
                   res, ret>>

\* lines 49-109: the dates, the timestamp, the query
BuildQuery(c) ==
    /\ pc[c] = "start"
    /\ time_ms' = [time_ms EXCEPT ![c] = Num(now)]
    /\ params' = [params EXCEPT ![c] = Params(args[c], Timestamp(now))]
    /\ Goto(c, "built")
    /\ UNCHANGED <<now, args, upstream, gets, response, data, summary_info,
                   goods, sliced, results, idx, total_base_fare, res>>

\* lines 112-113: the GET is issued and the invocation awaits the reply
SendGet(c) ==
    /\ pc[c] = "built"
    /\ gets' = [gets EXCEPT ![c] = @ + 1]
    /\ Goto(c, "awaiting")
    /\ UNCHANGED <<now, args, upstream, time_ms, params, response, data,
                   summary_info, goods, sliced, results, idx, total_base_fare, res>>

\* line 113 raises: no connection, or no reply within the timeout
GetFails(c) ==
    /\ pc[c] = "awaiting"
    /\ upstream[c].failed
    /\ Throw(c, RaiseHttp(upstream[c].type, upstream[c].msg).exc)
    /\ UNCHANGED <<now, args, upstream, gets, time_ms, params, response, data,
                   summary_info, goods, sliced, results, idx, total_base_fare, res>>

\* lines 113-114: the reply arrives; raise_for_status()
GetReturns(c) ==
    /\ pc[c] = "awaiting"
    /\ ~upstream[c].failed
    /\ response' = [response EXCEPT ![c] = upstream[c]]
    /\ IF IsSuccess(upstream[c].status)
       THEN Goto(c, "parse")
       ELSE Throw(c, RaiseHttp("HTTPStatusError", StatusMessage(upstream[c].status)).exc)
    /\ UNCHANGED <<now, args, upstream, gets, time_ms, params, data,
                   summary_info, goods, sliced, results, idx, total_base_fare, res>>

\* lines 116-120: response.json()
ParseBody(c) ==
    /\ pc[c] = "parse"
    /\ IF response[c].body.json
       THEN /\ data' = [data EXCEPT ![c] = response[c].body.value]
            /\ Goto(c, "parsed")
       ELSE /\ data' = data
            /\ Return(c, "Error: API returned non-JSON response. Content start: "
                             \o Prefix(response[c].body.text, ContentPrefixLen))
    /\ UNCHANGED <<now, args, upstream, gets, time_ms, params, response,
                   summary_info, goods, sliced, results, idx, total_base_fare, res>>

\* WantsRaw with the flag ignored
WantsRawNever(a) == FALSE

\* if raw_json: (line 122)
WantsRaw(a) == a.raw_json

\* lines 122-123: the parsed JSON, serialized again
ReturnRaw(c) ==
    /\ pc[c] = "parsed"
    /\ WantsRaw(args[c])
    /\ Return(c, Dumps(data[c], 0))
    /\ UNCHANGED <<now, args, upstream, gets, time_ms, params, response, data,
                   summary_info, goods, sliced, results, idx, total_base_fare, res>>

\* lines 125-128: the summary block and its error count
CheckSummary(c) ==
    /\ pc[c] = "parsed"
    /\ ~WantsRaw(args[c])
    /\ LET info == Get(data[c], "GoodsSummary", Dict(<<>>)) IN
       IF ~info.ok
       THEN /\ summary_info' = summary_info
            /\ Throw(c, info.exc)
       ELSE /\ summary_info' = [summary_info EXCEPT ![c] = info.val]
            /\ LET err_cnt == Get(info.val, "errCnt", None) IN
               IF ~err_cnt.ok THEN Throw(c, err_cnt.exc)
               ELSE IF NotOK(err_cnt.val)
               THEN Return(c, "API Error: "
                                 \o PyStr(Get(info.val, "errMsg", Str("Unknown error")).val))
               ELSE Goto(c, "goods")
    /\ UNCHANGED <<now, args, upstream, gets, time_ms, params, response, data,
                   goods, sliced, results, idx, total_base_fare, res>>

\* d[k]: KeyError when the key is absent
Subscript(d, k) ==
    IF ~IsDict(d)
    THEN Raise("TypeError", "'" \o TypeName(d) \o "' object is not subscriptable")
    ELSE IF HasKey(d, k) THEN Ok(Lookup(d, k)) ELSE Raise("KeyError", "'" \o k \o "'")

\* GoodsOf written data["GoodsList"]["Goods"], without the defaults
GoodsOfStrict(d) ==
    LET goods_list == Subscript(d, "GoodsList") IN
    IF ~goods_list.ok THEN goods_list ELSE Subscript(goods_list.val, "Goods")

\* goods = data.get("GoodsList", {}).get("Goods", []) (line 130)
GoodsOf(d) ==
    LET goods_list == Get(d, "GoodsList", Dict(<<>>)) IN
    IF ~goods_list.ok THEN goods_list ELSE Get(goods_list.val, "Goods", List(<<>>))

\* lines 130-139: the offer list, the header, the slice the loop runs over
ReadGoods(c) ==
    /\ pc[c] = "goods"
    /\ LET g == GoodsOf(data[c]) IN
       IF ~g.ok
       THEN /\ Throw(c, g.exc)
            /\ UNCHANGED <<goods, results, sliced>>
       ELSE /\ goods' = [goods EXCEPT ![c] = g.val]
            /\ IF ~Truthy(g.val)
               THEN /\ Return(c, "No flights found for the given criteria.")
                    /\ UNCHANGED <<results, sliced>>
               ELSE LET n == PyLen(g.val) IN
                    IF ~n.ok
                    THEN /\ Throw(c, n.exc)
                         /\ UNCHANGED <<results, sliced>>
                    ELSE /\ results' = [results EXCEPT ![c] =
                                           << "Found " \o IntStr(n.val) \o " flight offers.",
                                              Repeat("-", HeaderRule) >>]
                         /\ LET items == Slice(g.val, DigestCap) IN
                            IF ~items.ok
                            THEN /\ Throw(c, items.exc)
                                 /\ sliced' = sliced
                            ELSE /\ Goto(c, "loop")
                                 /\ sliced' = [sliced EXCEPT ![c] = items.val]
    /\ UNCHANGED <<now, args, upstream, gets, time_ms, params, response, data,
                   summary_info, idx, total_base_fare, res>>

\* lines 139-169: one pass of the loop
FormatOffer(c) ==
    /\ pc[c] = "loop"
    /\ idx[c] < Len(sliced[c])
    /\ LET item == sliced[c][idx[c] + 1]
           total == TotalBaseFare(item)
           lines == OfferLines(item, idx[c])
       IN  /\ total_base_fare' =
                 IF IsDict(item) /\ total.ok
                 THEN [total_base_fare EXCEPT ![c] = total.val]
                 ELSE total_base_fare
           /\ IF ~lines.ok
              THEN /\ Throw(c, lines.exc)
                   /\ UNCHANGED <<res, results, idx>>
              ELSE /\ res' = [res EXCEPT ![c] = lines.val]
                   /\ results' = [results EXCEPT ![c] =
                                     @ \o << Join("\n", lines.val), Repeat("-", BlockRule) >>]
                   /\ idx' = [idx EXCEPT ![c] = @ + 1]
                   /\ Goto(c, "loop")
    /\ UNCHANGED <<now, args, upstream, gets, time_ms, params, response, data,
                   summary_info, goods, sliced>>

\* lines 171-174: the count of the offers left out, and the digest
Finish(c) ==
    /\ pc[c] = "loop"
    /\ idx[c] = Len(sliced[c])
    /\ LET all == results[c] \o Trailer(PyLen(goods[c]).val) IN
       /\ results' = [results EXCEPT ![c] = all]
       /\ Return(c, Join("\n", all))
    /\ UNCHANGED <<now, args, upstream, gets, time_ms, params, response, data,
                   summary_info, goods, sliced, idx, total_base_fare, res>>

Next ==
    \/ Tick
    \/ \E c \in Calls : BuildQuery(c)
    \/ \E c \in Calls : SendGet(c)
    \/ \E c \in Calls : GetFails(c)
    \/ \E c \in Calls : GetReturns(c)
    \/ \E c \in Calls : ParseBody(c)
    \/ \E c \in Calls : ReturnRaw(c)
    \/ \E c \in Calls : CheckSummary(c)
    \/ \E c \in Calls : ReadGoods(c)
    \/ \E c \in Calls : FormatOffer(c)
    \/ \E c \in Calls : Finish(c)

\* one invocation
Spec == Init /\ [][Next]_vars

\* two invocations running concurrently
SpecTwo == InitTwo /\ [][Next]_vars

(***************************************************************************)
(* The properties.                                                         *)
(***************************************************************************)
Done(c) == pc[c] = "done"

\* a status of the 2xx class
Is2xx(status) == status \in 200..299

\* the reply is a 2xx response whose body parses as JSON
JsonReply(c) ==
    /\ ~upstream[c].failed
    /\ Is2xx(upstream[c].status)
    /\ upstream[c].body.json

\* the reply is a connection failure, a timeout or a non-2xx response
FailedReply(c) == upstream[c].failed \/ ~Is2xx(upstream[c].status)

ReplyDoc(c) == upstream[c].body.value

\* field k of object d, as a sequence: empty when d has no such field
Field(d, k) == IF HasKey(d, k) THEN <<Lookup(d, k)>> ELSE <<>>

\* the summary block of a JSON object, as a sequence: empty when absent
SummaryBlock(d) == Field(d, "GoodsSummary")

\* the errCnt field of the summary block, empty when the block or the field is absent
ErrCnt(d) ==
    IF SummaryBlock(d) = <<>> THEN <<>> ELSE Field(SummaryBlock(d)[1], "errCnt")

\* the errMsg field of the summary block, likewise
ErrMsg(d) ==
    IF SummaryBlock(d) = <<>> THEN <<>> ELSE Field(SummaryBlock(d)[1], "errMsg")

\* the body is a JSON object whose summary block, when present, is an object
HasSummaryShape(d) ==
    /\ IsDict(d)
    /\ SummaryBlock(d) # <<>> => IsDict(SummaryBlock(d)[1])

SummaryIsOK(d) == HasSummaryShape(d) /\ ErrCnt(d) = <<Str("OK")>>

\* the offer list is missing (no GoodsList, or a GoodsList object without Goods)
GoodsAbsent(d) ==
    \/ Field(d, "GoodsList") = <<>>
    \/ /\ IsDict(Field(d, "GoodsList")[1])
       /\ Field(Field(d, "GoodsList")[1], "Goods") = <<>>

\* the offer list, when GoodsList is an object that holds one
GoodsIn(d) ==
    IF Field(d, "GoodsList") # <<>> /\ IsDict(Field(d, "GoodsList")[1])
    THEN Field(Field(d, "GoodsList")[1], "Goods")
    ELSE <<>>

\* a fare component of an offer: 0 when the offer lacks it
Component(item, k) == IF HasKey(item, k) THEN Lookup(item, k).num ELSE 0

\* each fare component of the offer is absent or a number
FaresNumeric(item) ==
    /\ IsDict(item)
    /\ \A k \in {"SaleFare", "Tax", "Qcharge"} : HasKey(item, k) => IsNum(Lookup(item, k))

\* the offer's discount list is absent, empty, or led by an object whose total,
\* when present, is a number
DiscountsWellFormed(item) ==
    \/ ~HasKey(item, "EventFareList")
    \/ /\ IsDict(Lookup(item, "EventFareList"))
       /\ LET fares == Field(Lookup(item, "EventFareList"), "EventFare") IN
          \/ fares = <<>>
          \/ /\ IsList(fares[1])
             /\ fares[1].list # <<>> =>
                   /\ IsDict(fares[1].list[1])
                   /\ HasKey(fares[1].list[1], "TotalSaleFare") =>
                         IsNum(Lookup(fares[1].list[1], "TotalSaleFare"))

\* an offer record of the data model: an object with numeric fares
WellFormedOffer(item) == FaresNumeric(item) /\ DiscountsWellFormed(item)

Shown(n) == Min(n, DigestCap)

AirlineOf(item) ==
    IF HasKey(item, "AirLineKor") THEN PyStr(Lookup(item, "AirLineKor"))
    ELSE "Unknown Airline"

\* an entry of results that is an offer block
IsBlock(line) == StartsWith(line, "[")

\* an entry of results that counts the offers left out
IsTrailer(line) == StartsWith(line, "... and ")

CountBlocks(xs) == Cardinality({i \in 1..Len(xs) : IsBlock(xs[i])})

CountTrailers(xs) == Cardinality({i \in 1..Len(xs) : IsTrailer(xs[i])})

\* the digest of invocation c lists offers, the first Shown(n) of the n given
DigestShape(c, offers) ==
    LET n == Len(offers)
        m == Shown(n)
        out == results[c]
    IN  /\ ret[c] = Join("\n", out)
        /\ Len(out) = 2 + 2 * m + (IF n > DigestCap THEN 1 ELSE 0)
        /\ out[1] = "Found " \o IntStr(n) \o " flight offers."
        /\ CountBlocks(out) = m
        /\ \A k \in 1..m :
              /\ StartsWith(out[2 * k + 1],
                            "[" \o IntStr(k) \o "] " \o AirlineOf(offers[k]) \o "\n")
              /\ ~IsBlock(out[2 * k + 2])
        /\ CountTrailers(out) = (IF n > DigestCap THEN 1 ELSE 0)
        /\ n > DigestCap =>
              out[Len(out)] = "... and " \o IntStr(n - DigestCap) \o " more results."

\* the reply of invocation c carries a successful summary and a list of at least
\* one offer, of which those to be shown are well-formed records
OffersReply(c) ==
    /\ JsonReply(c)
    /\ SummaryIsOK(ReplyDoc(c))
    /\ GoodsIn(ReplyDoc(c)) # <<>>
    /\ IsList(GoodsIn(ReplyDoc(c))[1])
    /\ LET offers == GoodsIn(ReplyDoc(c))[1].list IN
       /\ Len(offers) >= 1
       /\ \A k \in 1..Shown(Len(offers)) : WellFormedOffer(offers[k])

Positions == {"start", "built", "awaiting", "parse", "parsed", "goods", "loop", "done"}

\* invocation c has a step to take: the guard of the action at its position holds
CanStep(c) ==
    CASE pc[c] = "awaiting" -> upstream[c].failed \in BOOLEAN
      [] pc[c] = "parse" -> response[c] # Unset
      [] pc[c] = "parsed" -> data[c] # Unset /\ WantsRaw(args[c]) \in BOOLEAN
      [] pc[c] = "goods" -> data[c] # Unset
      [] pc[c] = "loop" -> idx[c] <= Len(sliced[c])
      [] OTHER -> pc[c] \in {"start", "built"}

(***************************************************************************)
(* C1: search_flights never raises past its own boundary.  Whatever the    *)
(* arguments and whatever the upstream does, an invocation is never left   *)
(* by an exception: it is at one of the positions of the code, it can      *)
(* always take its next step until it has returned, and what it returns is *)
(* a string.                                                               *)
(***************************************************************************)
C1_NeverRaises ==
    \A c \in Calls :
        /\ pc[c] \in Positions
        /\ ~Done(c) => CanStep(c)
        /\ Done(c) => ret[c] \in STRING /\ ret[c] # ""

\* an invocation that met a JSON body with a non-object top level and returned
\* the generic error string
C1_Witness ==
    \E c \in Calls :
        /\ Done(c)
        /\ JsonReply(c) /\ ~IsDict(ReplyDoc(c))
        /\ ~args[c].raw_json
        /\ StartsWith(ret[c], "An unexpected error occurred: ")

(***************************************************************************)
(* C2: for a successful summary, raw_json false and a list of n >= 1       *)
(* offers (records with numeric fares), the digest holds exactly           *)
(* min(n, 10) offer blocks, numbered 1..min(n, 10), for the first          *)
(* min(n, 10) offers in their order, and the line '... and (n - 10) more   *)
(* results.' exactly when n > 10.  Conversely every digest returned has    *)
(* that shape for the offer list of the reply.                             *)
(***************************************************************************)
C2_DigestCapped ==
    \A c \in Calls :
        /\ (Done(c) /\ ~args[c].raw_json /\ OffersReply(c))
              => DigestShape(c, GoodsIn(ReplyDoc(c))[1].list)
        /\ (Done(c) /\ ~args[c].raw_json /\ StartsWith(ret[c], "Found "))
              => /\ JsonReply(c) /\ SummaryIsOK(ReplyDoc(c))
                 /\ DigestShape(c, GoodsIn(ReplyDoc(c))[1].list)

\* the digest of 15 offers: 10 blocks and a line noting 5 more
C2_Witness ==
    \E c \in Calls :
        /\ Done(c) /\ ~args[c].raw_json /\ OffersReply(c)
        /\ Len(GoodsIn(ReplyDoc(c))[1].list) = DigestCap + 5
        /\ CountBlocks(results[c]) = DigestCap
        /\ results[c][Len(results[c])] = "... and 5 more results."

(***************************************************************************)
(* C3: for a 2xx JSON reply with raw_json false, whenever the summary      *)
(* block's errCnt is not "OK" (the block or the field may be absent), the  *)
(* result is 'API Error: ' followed by the errMsg, or 'API Error: Unknown  *)
(* error' when there is no errMsg, whatever the offer list holds: the      *)
(* offer list is not even read.                                            *)
(***************************************************************************)
C3_ApiError ==
    \A c \in Calls :
        (/\ Done(c) /\ JsonReply(c) /\ ~args[c].raw_json
         /\ HasSummaryShape(ReplyDoc(c))
         /\ ErrCnt(ReplyDoc(c)) # <<Str("OK")>>)
            => /\ ret[c] = "API Error: "
                              \o (IF ErrMsg(ReplyDoc(c)) = <<>> THEN "Unknown error"
                                  ELSE PyStr(ErrMsg(ReplyDoc(c))[1]))
               /\ goods[c] = Unset
               /\ results[c] = <<>>

\* the spec's example, with offers present in the reply
C3_Witness ==
    \E c \in Calls :
        /\ Done(c) /\ JsonReply(c) /\ ~args[c].raw_json
        /\ HasSummaryShape(ReplyDoc(c))
        /\ ErrCnt(ReplyDoc(c)) = <<Str("1")>>
        /\ GoodsIn(ReplyDoc(c)) = <<PlainGoods(2)>>
        /\ ret[c] = "API Error: No fares found"

(***************************************************************************)
(* C4: for a 2xx JSON reply with raw_json false and errCnt "OK", when the  *)
(* offer list is absent (no GoodsList, or no Goods in it) or empty, the    *)
(* result is exactly 'No flights found for the given criteria.' and no     *)
(* header or offer block is produced.                                      *)
(***************************************************************************)
C4_NoFlights ==
    \A c \in Calls :
        (/\ Done(c) /\ JsonReply(c) /\ ~args[c].raw_json
         /\ SummaryIsOK(ReplyDoc(c))
         /\ \/ GoodsAbsent(ReplyDoc(c))
            \/ GoodsIn(ReplyDoc(c)) = <<List(<<>>)>>)
            => /\ ret[c] = "No flights found for the given criteria."
               /\ results[c] = <<>>
               /\ idx[c] = 0

\* a reply without any GoodsList, answered with the fixed message
C4_Witness ==
    \E c \in Calls :
        /\ Done(c) /\ JsonReply(c) /\ ~args[c].raw_json
        /\ SummaryIsOK(ReplyDoc(c))
        /\ Field(ReplyDoc(c), "GoodsList") = <<>>
        /\ ret[c] = "No flights found for the given criteria."

(***************************************************************************)
(* C5: with raw_json true and a 2xx JSON reply, the result is the parsed   *)
(* JSON serialized again, whatever the summary block and the offer list    *)
(* hold: the summary is never inspected, the offers never read, and no     *)
(* 'API Error', no-results message or digest is returned.                  *)
(***************************************************************************)
C5_RawBypasses ==
    \A c \in Calls :
        (args[c].raw_json /\ JsonReply(c))
            => /\ summary_info[c] = Unset
               /\ goods[c] = Unset
               /\ results[c] = <<>>
               /\ pc[c] \notin {"goods", "loop"}
               /\ Done(c) =>
                     /\ ret[c] = Dumps(ReplyDoc(c), 0)
                     /\ ~StartsWith(ret[c], "API Error: ")
                     /\ ~StartsWith(ret[c], "Found ")
                     /\ ret[c] # "No flights found for the given criteria."

\* a reply whose summary reports an error, returned raw
C5_Witness ==
    \E c \in Calls :
        /\ Done(c) /\ args[c].raw_json /\ JsonReply(c)
        /\ ReplyDoc(c) = ErrorDoc
        /\ ret[c] = "{\n  \"GoodsSummary\": {\n    \"errCnt\": \"1\",\n    \"errMsg\": \"No fares found\"\n  }\n}"

(***************************************************************************)
(* C6: each invocation issues exactly one GET.  When it ends in a          *)
(* connection failure, a timeout or a non-2xx status, the invocation goes  *)
(* from awaiting the reply straight to its end, without a second attempt,  *)
(* and returns a string that begins 'Error fetching flight data: '; the    *)
(* body is never parsed, returned raw, or checked for errCnt or offers.    *)
(***************************************************************************)
C6_SingleAttempt ==
    \A c \in Calls :
        /\ gets[c] = (IF pc[c] \in {"start", "built"} THEN 0 ELSE 1)
        /\ FailedReply(c) =>
              /\ pc[c] \in {"start", "built", "awaiting", "done"}
              /\ data[c] = Unset /\ summary_info[c] = Unset /\ goods[c] = Unset
              /\ results[c] = <<>>
              /\ Done(c) => StartsWith(ret[c], "Error fetching flight data: ")

\* a 404 whose body is JSON, asked for raw, answered with the fetch error
C6_Witness ==
    \E c \in Calls :
        /\ Done(c) /\ gets[c] = 1 /\ args[c].raw_json
        /\ ~upstream[c].failed /\ upstream[c].status = 404 /\ upstream[c].body.json
        /\ StartsWith(ret[c], "Error fetching flight data: Client error '404'")

\* the query of invocation c has been built
Built(c) == pc[c] # "start"

\* the value the query of invocation c sends under key k
Query(c, k) == Lookup(params[c], k).str

(***************************************************************************)
(* C7: in the outgoing query sCity1 and eCity1 carry departure_city and    *)
(* arrival_city verbatim; for a round trip ("RT") sCity2 is arrival_city   *)
(* and eCity2 is departure_city; otherwise both are the empty string.      *)
(***************************************************************************)
C7_ReturnLeg ==
    \A c \in Calls :
        Built(c) =>
            /\ Query(c, "sCity1") = args[c].departure_city
            /\ Query(c, "eCity1") = args[c].arrival_city
            /\ args[c].trip_type = "RT" =>
                  /\ Query(c, "sCity2") = args[c].arrival_city
                  /\ Query(c, "eCity2") = args[c].departure_city
            /\ args[c].trip_type # "RT" =>
                  /\ Query(c, "sCity2") = ""
                  /\ Query(c, "eCity2") = ""

\* a round trip GMP -> HND, whose return leg is HND -> GMP
C7_Witness ==
    \E c \in Calls :
        /\ Built(c)
        /\ args[c].trip_type = "RT"
        /\ args[c].departure_city = "GMP" /\ args[c].arrival_city = "HND"
        /\ Query(c, "sCity2") = "HND" /\ Query(c, "eCity2") = "GMP"

\* s with its hyphens left out, character by character
Dehyphenated(s) ==
    Join("", SelectSeq([i \in 1..Len(s) |-> SubSeq(s, i, i)], LAMBDA ch : ch # "-"))

(***************************************************************************)
(* C8: in the outgoing query startDt is departure_date with every hyphen   *)
(* removed and nothing else changed ("2026-03-03" gives "20260303"); endDt *)
(* is return_date treated the same way when one is supplied, and the empty *)
(* string when it is omitted, whatever the trip type.                      *)
(***************************************************************************)
C8_Dates ==
    \A c \in Calls :
        Built(c) =>
            /\ Query(c, "startDt") = Dehyphenated(args[c].departure_date)
            /\ args[c].departure_date = "2026-03-03" => Query(c, "startDt") = "20260303"
            /\ IsNone(args[c].return_date) => Query(c, "endDt") = ""
            /\ IsStr(args[c].return_date) =>
                  Query(c, "endDt") = Dehyphenated(args[c].return_date.str)
            /\ args[c].return_date = Str("2026-03-09") => Query(c, "endDt") = "20260309"

\* a round trip without a return date: the query is built, with an empty endDt
C8_Witness ==
    \E c \in Calls :
        /\ Built(c)
        /\ args[c].trip_type = "RT"
        /\ IsNone(args[c].return_date)
        /\ args[c].departure_date = "2026-12-25"
        /\ Query(c, "startDt") = "20261225"
        /\ Query(c, "endDt") = ""

\* the offer the loop of invocation c formatted last
LastOffer(c) == sliced[c][idx[c]]

\* the offer the loop of invocation c stopped at
FailedOffer(c) == sliced[c][idx[c] + 1]

(***************************************************************************)
(* C9: for every offer shown in the digest the price is the numeric sum    *)
(* SaleFare + Tax + Qcharge, a missing component counting as 0, rendered   *)
(* with thousands separators and ' KRW' (500000 + 50000 + 10000 gives      *)
(* '560,000 KRW'); an offer that lacks components yields its block, never  *)
(* an error.                                                               *)
(***************************************************************************)
C9_PriceIsSum ==
    \A c \in Calls :
        /\ idx[c] >= 1 =>
              LET sum == Component(LastOffer(c), "SaleFare")
                             + Component(LastOffer(c), "Tax")
                             + Component(LastOffer(c), "Qcharge")
              IN  /\ FaresNumeric(LastOffer(c))
                  /\ total_base_fare[c] = Num(sum)
                  /\ StartsWith(res[c][3], "   Price: " \o CommaStr(sum) \o " KRW")
                  /\ ~HasKey(LastOffer(c), "EventFareList") =>
                        res[c][3] = "   Price: " \o CommaStr(sum) \o " KRW"
                  /\ results[c][2 * idx[c] + 1] = Join("\n", res[c])
        /\ (Done(c) /\ idx[c] < Len(sliced[c])) =>
              ~(FaresNumeric(FailedOffer(c)) /\ DiscountsWellFormed(FailedOffer(c)))

\* the spec's example, and an offer without any fare component priced 0
C9_Witness ==
    \E c \in Calls :
        /\ idx[c] = 1
        /\ LastOffer(c) = Offer(1)
        /\ total_base_fare[c] = Num(560000)
        /\ res[c][3] = "   Price: 560,000 KRW"

(***************************************************************************)
(* C10 as stated: no two invocations build an identical query.             *)
(***************************************************************************)
C10_NoTwoIdentical ==
    \A c1, c2 \in Calls :
        (c1 # c2 /\ Built(c1) /\ Built(c2)) => params[c1] # params[c2]

(***************************************************************************)
(* C10 as amended: the '_' value is the decimal text of the millisecond    *)
(* clock read when the query is built, so two invocations whose readings   *)
(* differ build different queries, even from identical arguments; two      *)
(* invocations with the same arguments that read the same millisecond      *)
(* build identical queries.                                                *)
(***************************************************************************)
C10_DistinctWhenClockDiffers ==
    \A c1, c2 \in Calls :
        (c1 # c2 /\ Built(c1) /\ Built(c2)) =>
            /\ time_ms[c1] # time_ms[c2] => params[c1] # params[c2]
            /\ (time_ms[c1] = time_ms[c2] /\ args[c1] = args[c2]) => params[c1] = params[c2]

\* two invocations with the same arguments built a millisecond apart
C10_Witness ==
    \E c1, c2 \in Calls :
        /\ c1 # c2 /\ Built(c1) /\ Built(c2)
        /\ args[c1] = args[c2]
        /\ time_ms[c2] = Num(time_ms[c1].num + 1)
        /\ params[c1] # params[c2]

=============================================================================
